---- MODULE Spec2Model ----
(***************************************************************************)
(* DataSource admin API (backend/app/api/admin_routes/data_source.py).     *)
(* Four FastAPI endpoints over one relational store and one task queue:    *)
(*   POST /admin/datasources                 create_datasource             *)
(*   GET  /admin/datasources                 list_datasources              *)
(*   GET  /admin/datasources/{id}            get_datasource                *)
(*   GET  /admin/datasources/{id}/overview   get_datasource_overview       *)
(* Each request is served by a worker; a handler that issues several       *)
(* storage statements or an external call is one action per statement, so  *)
(* that other requests and the import pipeline interleave between them.    *)
(***************************************************************************)
EXTENDS Integers, Sequences, FiniteSets, TLC

VARIABLES
    dataSources,   \* table DataSource: id -> row
    documents,     \* table Document:   id -> [data_source_id, index_status]
    chunks,        \* table Chunk:      id -> [document_id, index_status]
    queue,         \* task queue: ids handed to import_documents_from_datasource
    dispatchLog,   \* history: every id ever dispatched, in dispatch order
    jobLookups,    \* history: id -> whether the job that ran for it found the row
    returned,      \* history: id -> entity a successful create responded with
    now,           \* the storage server's clock (source of created_at)
    isolation,     \* isolation level of the session's transaction
    workers,       \* worker -> the request it is serving (position and locals)
    pager          \* a client walking the pages of the listing one after another

vars == <<dataSources, documents, chunks, queue, dispatchLog, jobLookups,
          returned, now, isolation, workers, pager>>

---------------------------------------------------------------------------
\* Bounds of the model.

MaxDataSources == 2
MaxDocuments == 2
MaxChunks == 1
MaxClock == 1
MaxPageSize == 2

Workers == {"w1", "w2"}

---------------------------------------------------------------------------
\* Values.

NoneId == 0
NoneTime == -1

\* The callers: one superuser, one ordinary user.
Users == { [id |-> 1, is_superuser |-> TRUE], [id |-> 2, is_superuser |-> FALSE] }
NoUser == [id |-> 0, is_superuser |-> FALSE]

\* DataSourceCreate bodies that pass validation.
Requests ==
    { [name |-> "docs", description |-> "product docs", data_source_type |-> "file",
       config |-> <<"a.pdf">>, build_kg_index |-> FALSE],
      [name |-> "blog", description |-> "company blog", data_source_type |-> "web_sitemap",
       config |-> <<"https://x/sitemap.xml">>, build_kg_index |-> TRUE] }
NoRequest == [name |-> "", description |-> "", data_source_type |-> "",
              config |-> <<>>, build_kg_index |-> FALSE]

IndexStatus == {"pending", "completed"}

EmptyMap == [s \in {} |-> 0]

Range(f) == { f[x] : x \in DOMAIN f }

\* f extended (or overridden) at key k with value v.
Put(f, k, v) == [x \in (DOMAIN f) \cup {k} |-> IF x = k THEN v ELSE f[x]]

---------------------------------------------------------------------------
\* The request a worker is serving.

HTTP_404_NOT_FOUND == 404

NoDataSource ==
    [id |-> NoneId, name |-> "", description |-> "", data_source_type |-> "",
     config |-> <<>>, build_kg_index |-> FALSE, user_id |-> 0, created_at |-> NoneTime]

NoParams == [page |-> 0, size |-> 0]
NoSnap == [documents_count |-> -1, chunks_count |-> -1,
           vector_index_status |-> EmptyMap, kg_index_status |-> EmptyMap]
NoResp == [status |-> 0, body |-> [none |-> TRUE]]

Idle ==
    [pc |-> "idle", op |-> "none", user |-> NoUser, request |-> NoRequest,
     data_source_id |-> NoneId, params |-> NoParams, data_source |-> NoDataSource,
     ops |-> <<>>, documents_count |-> -1, chunks_count |-> -1,
     vector_index_status |-> EmptyMap, kg_index_status |-> EmptyMap,
     snap |-> NoSnap, dirty |-> FALSE, stale |-> FALSE, resp |-> NoResp]

\* A worker takes a new request once the response of its last one was taken.
Free(w) == workers[w].pc \in {"idle", "done"} /\ pager.waiting # w

Set(w, r) == workers' = [workers EXCEPT ![w] = r]

Respond(r, status, body) ==
    [r EXCEPT !.pc = "done", !.resp = [status |-> status, body |-> body]]

\* Mutation: the overview endpoint does not declare the dependency.
SuperuserEndpoints_OverviewOpen == {"create", "list", "get"}

\* The endpoints whose signature declares `user: CurrentSuperuserDep`.
SuperuserEndpoints == {"create", "list", "get", "overview"}

\* CurrentSuperuserDep: resolved before the handler body is entered.
Rejected(op, user) == op \in SuperuserEndpoints /\ ~user.is_superuser

Forbidden == [detail |-> "The user doesn't have enough privileges"]
ServerError == [detail |-> "Internal Server Error"]
NotFound == [detail |-> "Data source not found"]

\* A request arrives at a free worker and its dependencies are resolved:
\* rejected, or positioned at the first statement of the handler body.
Arrive(w, r, entry) ==
    Set(w, IF Rejected(r.op, r.user) THEN Respond(r, 403, Forbidden)
           ELSE [r EXCEPT !.pc = entry])

---------------------------------------------------------------------------
\* POST /admin/datasources

\* Mutation: build_kg_index is not passed on and keeps the model's default.
NewDataSource_DropsKgFlag(request, user) ==
    [id |-> NoneId, name |-> request.name, description |-> request.description,
     data_source_type |-> request.data_source_type, config |-> request.config,
     build_kg_index |-> FALSE, user_id |-> user.id, created_at |-> NoneTime]

\* DataSource(...) as the handler constructs it: id and created_at not yet set.
NewDataSource(request, user) ==
    [id |-> NoneId, name |-> request.name, description |-> request.description,
     data_source_type |-> request.data_source_type, config |-> request.config,
     build_kg_index |-> request.build_kg_index, user_id |-> user.id,
     created_at |-> NoneTime]

\* The row the INSERT stores: the auto-increment id and the server's timestamp.
InsertedRow(obj, table, clock) ==
    [obj EXCEPT !.id = Cardinality(DOMAIN table) + 1, !.created_at = clock]

\* Mutation: the job is dispatched before the row is committed.
CreateStepAfter_DispatchFirst(step) ==
    CASE step = "begin" -> "dispatch"
      [] step = "dispatch" -> "commit"
      [] step = "commit" -> "done"

\* Mutation: the handler returns after the commit without dispatching.
CreateStepAfter_NoDispatch(step) ==
    CASE step = "begin" -> "commit"
      [] step = "commit" -> "done"
      [] step = "dispatch" -> "done"

\* The order of the handler body's statements.
CreateStepAfter(step) ==
    CASE step = "begin" -> "commit"
      [] step = "commit" -> "dispatch"
      [] step = "dispatch" -> "done"

\* Leave a statement of create_datasource: the next statement, or `return data_source`.
CreateAdvance(r, step) ==
    IF CreateStepAfter(step) = "done" THEN Respond(r, 200, r.data_source)
    ELSE [r EXCEPT !.pc = CreateStepAfter(step)]

\* The history of successful create responses, after the request r took a step.
Returned(r) ==
    IF r.pc = "done" /\ r.resp.status = 200 THEN Put(returned, r.resp.body.id, r.resp.body)
    ELSE returned

\* Creates in flight that have not yet inserted their row.
PendingCreates == { w \in Workers : workers[w].op = "create" /\ workers[w].pc # "done"
                                    /\ workers[w].data_source.id = NoneId }

RequestCreate(w) ==
    /\ Free(w)
    /\ \E user \in Users, request \in Requests :
          /\ user.is_superuser =>
                Cardinality(DOMAIN dataSources) + Cardinality(PendingCreates) < MaxDataSources
          /\ Arrive(w, [Idle EXCEPT !.op = "create", !.user = user, !.request = request,
                                     !.data_source = NewDataSource(request, user)],
                    CreateStepAfter("begin"))
    /\ UNCHANGED <<dataSources, documents, chunks, queue, dispatchLog, jobLookups,
                   returned, now, isolation, pager>>

\* session.add(data_source); session.commit(); session.refresh(data_source)
CreateCommit(w) ==
    /\ workers[w].pc = "commit"
    /\ \E ok \in BOOLEAN :
          LET r == workers[w]
              row == InsertedRow(r.data_source, dataSources, now)
          IN IF ok
             THEN /\ dataSources' = Put(dataSources, row.id, row)
                  /\ Set(w, CreateAdvance([r EXCEPT !.data_source = row,
                                             !.ops = r.ops \o <<"add", "commit", "refresh">>],
                                          "commit"))
                  /\ returned' = Returned(workers'[w])
             ELSE /\ Set(w, Respond([r EXCEPT !.ops = r.ops \o <<"add", "commit">>],
                                    500, ServerError))
                  /\ UNCHANGED <<dataSources, returned>>
    /\ UNCHANGED <<documents, chunks, queue, dispatchLog, jobLookups, now, isolation, pager>>

\* The queue after import_documents_from_datasource.delay(id): the message is
\* enqueued exactly when the call returns normally.
Delay(q, id, ok) == IF ok THEN Append(q, id) ELSE q

\* Mutation: a failed dispatch is compensated by deleting the row.
AfterDispatchError_Rollback(table, id) == [x \in (DOMAIN table) \ {id} |-> table[x]]

\* Storage after delay() raised: the handler has no except clause around it.
AfterDispatchError(table, id) == table

\* import_documents_from_datasource.delay(data_source.id)
CreateDispatch(w) ==
    /\ workers[w].pc = "dispatch"
    /\ \E ok \in BOOLEAN :
          LET r == [workers[w] EXCEPT !.ops = @ \o <<"delay">>]
              id == r.data_source.id
          IN /\ queue' = Delay(queue, id, ok)
             /\ dispatchLog' = Delay(dispatchLog, id, ok)
             /\ IF ok
                THEN /\ Set(w, CreateAdvance(r, "dispatch"))
                     /\ returned' = Returned(workers'[w])
                     /\ UNCHANGED dataSources
                ELSE /\ Set(w, Respond(r, 500, ServerError))
                     /\ dataSources' = AfterDispatchError(dataSources, id)
                     /\ UNCHANGED returned
    /\ UNCHANGED <<documents, chunks, jobLookups, now, isolation, pager>>

\* The task worker takes the next message and looks the DataSource up.
RunJob ==
    /\ queue # <<>>
    /\ jobLookups' = Put(jobLookups, Head(queue), Head(queue) \in DOMAIN dataSources)
    /\ queue' = Tail(queue)
    /\ UNCHANGED <<dataSources, documents, chunks, dispatchLog, returned, now,
                   isolation, workers, pager>>

\* The storage server's clock advances.
Tick ==
    /\ now < MaxClock
    /\ now' = now + 1
    /\ UNCHANGED <<dataSources, documents, chunks, queue, dispatchLog, jobLookups,
                   returned, isolation, workers, pager>>

---------------------------------------------------------------------------
\* GET /admin/datasources

Perms(S) == { p \in [1..Cardinality(S) -> S] : \A i, j \in DOMAIN p : i # j => p[i] # p[j] }

\* Mutation: the order is ascending (.desc() missing).
OrderedByCreatedAtDesc_Asc(table, p) ==
    \A i, j \in DOMAIN p : i < j => table[p[i]].created_at <= table[p[j]].created_at

\* ORDER BY created_at DESC: what the clause requires of a result order p.
OrderedByCreatedAtDesc(table, p) ==
    \A i, j \in DOMAIN p : i < j => table[p[i]].created_at >= table[p[j]].created_at

\* The result orders the storage may produce: rows with equal created_at
\* come in any relative order, chosen anew by every query.
ResultOrders(table) == { p \in Perms(DOMAIN table) : OrderedByCreatedAtDesc(table, p) }

Min(a, b) == IF a < b THEN a ELSE b

\* LIMIT size OFFSET (page - 1) * size over the ordered result.
PageItems(table, p, params) ==
    LET offset == (params.page - 1) * params.size
    IN [i \in 1..Min(params.size, Len(p) - Min(offset, Len(p))) |-> table[p[offset + i]]]

\* ceil(total / size)
PageCount(total, size) == (total + size - 1) \div size

\* paginate(session, select(DataSource).order_by(created_at.desc()), params)
Paginate(table, p, params) ==
    [items |-> PageItems(table, p, params), total |-> Cardinality(DOMAIN table),
     page |-> params.page, size |-> params.size,
     pages |-> PageCount(Cardinality(DOMAIN table), params.size)]

ListRequest(user, params) == [Idle EXCEPT !.op = "list", !.user = user, !.params = params]

RequestList(w) ==
    /\ Free(w)
    /\ \E user \in Users, page \in 1..2, size \in 1..MaxPageSize :
          Arrive(w, ListRequest(user, [page |-> page, size |-> size]), "list")
    /\ UNCHANGED <<dataSources, documents, chunks, queue, dispatchLog, jobLookups,
                   returned, now, isolation, pager>>

list_datasources(w) ==
    /\ workers[w].pc = "list"
    /\ \E p \in ResultOrders(dataSources) :
          Set(w, Respond([workers[w] EXCEPT !.ops = @ \o <<"count", "select">>],
                         200, Paginate(dataSources, p, workers[w].params)))
    /\ UNCHANGED <<dataSources, documents, chunks, queue, dispatchLog, jobLookups,
                   returned, now, isolation, pager>>

---------------------------------------------------------------------------
\* GET /admin/datasources/{data_source_id}

\* session.get(DataSource, data_source_id): the row, or None.
SessionGet(table, id) == IF id \in DOMAIN table THEN table[id] ELSE NoDataSource

\* Mutation: the None check is missing.
IsNone_Never(data_source) == FALSE

\* `if data_source is None`
IsNone(data_source) == data_source = NoDataSource

\* The ids a caller may ask for: every id in use and one beyond them.
PathIds == 1..(MaxDataSources + 1)

RequestGet(w) ==
    /\ Free(w)
    /\ \E user \in Users, id \in PathIds :
          Arrive(w, [Idle EXCEPT !.op = "get", !.user = user, !.data_source_id = id], "get")
    /\ UNCHANGED <<dataSources, documents, chunks, queue, dispatchLog, jobLookups,
                   returned, now, isolation, pager>>

get_datasource(w) ==
    /\ workers[w].pc = "get"
    /\ LET r == [workers[w] EXCEPT !.ops = @ \o <<"get">>,
                                   !.data_source = SessionGet(dataSources, workers[w].data_source_id)]
       IN Set(w, IF IsNone(r.data_source)
                 THEN Respond(r, HTTP_404_NOT_FOUND, NotFound)
                 ELSE Respond(r, 200, r.data_source))
    /\ UNCHANGED <<dataSources, documents, chunks, queue, dispatchLog, jobLookups,
                   returned, now, isolation, pager>>

---------------------------------------------------------------------------
\* GET /admin/datasources/{data_source_id}/overview

Isolations == {"READ_COMMITTED", "REPEATABLE_READ"}

\* Document.data_source_id == data_source_id
DocumentsOf(docs, id) == { d \in DOMAIN docs : docs[d].data_source_id = id }

\* Chunk.document.has(Document.data_source_id == data_source_id)
ChunksOf(docs, chs, id) == { c \in DOMAIN chs : chs[c].document_id \in DocumentsOf(docs, id) }

\* The enumeration's order, used by ORDER BY index_status.
StatusRank(s) == CASE s = "pending" -> 1 [] s = "completed" -> 2

\* Mutation: every status of the enumeration gets a row, zero counts included.
GroupByStatus_ZeroFill(table, ids) ==
    LET ord == CHOOSE p \in [1..Cardinality(IndexStatus) -> IndexStatus] :
                  \A i, j \in DOMAIN p : i < j => StatusRank(p[i]) < StatusRank(p[j])
    IN [i \in DOMAIN ord |->
          <<ord[i], Cardinality({ x \in ids : table[x].index_status = ord[i] })>>]

\* SELECT index_status, count(id) ... GROUP BY index_status ORDER BY index_status
\* over the rows `ids` of `table`: one row per status held by at least one of them.
GroupByStatus(table, ids) ==
    LET keys == { table[x].index_status : x \in ids }
        ord == CHOOSE p \in [1..Cardinality(keys) -> keys] :
                  \A i, j \in DOMAIN p : i < j => StatusRank(p[i]) < StatusRank(p[j])
    IN [i \in DOMAIN ord |->
          <<ord[i], Cardinality({ x \in ids : table[x].index_status = ord[i] })>>]

\* {s: c for s, c in results}: a later row with the same key overrides.
DictOf(results) ==
    [s \in { results[i][1] : i \in DOMAIN results } |->
        LET last == CHOOSE i \in DOMAIN results :
                       /\ results[i][1] = s
                       /\ \A j \in DOMAIN results : results[j][1] = s => j <= i
        IN results[last][2]]

\* Mutation: the chunk statuses are grouped whatever build_kg_index says.
KgIndexStatus_Always(data_source, docs, chs) ==
    DictOf(GroupByStatus(chs, ChunksOf(docs, chs, data_source.id)))

\* The kg_index of the response: the grouped chunk counts, or {} without asking.
KgIndexStatus(data_source, docs, chs) ==
    IF data_source.build_kg_index
    THEN DictOf(GroupByStatus(chs, ChunksOf(docs, chs, data_source.id)))
    ELSE EmptyMap

\* Mutation: the count has no where clause.
CountDocuments_All(docs, id) == Cardinality(DOMAIN docs)

\* select(func.count(Document.id)).where(Document.data_source_id == data_source_id)
CountDocuments(docs, id) == Cardinality(DocumentsOf(docs, id))

\* select(func.count(Chunk.id)).where(Chunk.document.has(...))
CountChunks(docs, chs, id) == Cardinality(ChunksOf(docs, chs, id))

\* The vector_index of the response: the grouped document counts.
VectorIndexStatus(docs, id) == DictOf(GroupByStatus(docs, DocumentsOf(docs, id)))

\* What the handler's four statements return when run for data_source on the
\* tables docs and chs.
Answers(data_source, docs, chs) ==
    [documents_count |-> CountDocuments(docs, data_source.id),
     chunks_count |-> CountChunks(docs, chs, data_source.id),
     vector_index_status |-> VectorIndexStatus(docs, data_source.id),
     kg_index_status |-> KgIndexStatus(data_source, docs, chs)]

\* Mutation: every statement reads the latest committed state.
Read_Latest(r) == Answers(r.data_source, documents, chunks)

\* What the statements of request r return when they run now. Under
\* REPEATABLE_READ they read the snapshot the transaction took at its first
\* read, of which the request keeps what its statements will return; else
\* they read the latest committed state.
Read(r) ==
    IF isolation = "REPEATABLE_READ" THEN r.snap
    ELSE Answers(r.data_source, documents, chunks)

RequestOverview(w) ==
    /\ Free(w)
    /\ \E user \in Users, id \in PathIds :
          Arrive(w, [Idle EXCEPT !.op = "overview", !.user = user, !.data_source_id = id],
                 "ov_get")
    /\ UNCHANGED <<dataSources, documents, chunks, queue, dispatchLog, jobLookups,
                   returned, now, isolation, pager>>

\* data_source = session.get(DataSource, data_source_id); 404 if None
OverviewGet(w) ==
    /\ workers[w].pc = "ov_get"
    /\ LET r == [workers[w] EXCEPT !.ops = @ \o <<"get">>,
                                   !.data_source = SessionGet(dataSources, workers[w].data_source_id)]
       IN Set(w, IF IsNone(r.data_source)
                 THEN Respond(r, HTTP_404_NOT_FOUND, NotFound)
                 ELSE [r EXCEPT !.pc = "ov_count_documents",
                                !.snap = IF isolation = "REPEATABLE_READ"
                                         THEN Answers(r.data_source, documents, chunks)
                                         ELSE NoSnap])
    /\ UNCHANGED <<dataSources, documents, chunks, queue, dispatchLog, jobLookups,
                   returned, now, isolation, pager>>

\* documents_count = session.scalar(select(func.count(Document.id)).where(...))
OverviewCountDocuments(w) ==
    /\ workers[w].pc = "ov_count_documents"
    /\ LET r == workers[w]
       IN Set(w, [r EXCEPT !.pc = "ov_count_chunks", !.ops = @ \o <<"count">>,
                           !.documents_count = Read(r).documents_count])
    /\ UNCHANGED <<dataSources, documents, chunks, queue, dispatchLog, jobLookups,
                   returned, now, isolation, pager>>

\* chunks_count = session.scalar(select(func.count(Chunk.id)).where(...))
OverviewCountChunks(w) ==
    /\ workers[w].pc = "ov_count_chunks"
    /\ LET r == workers[w]
       IN Set(w, [r EXCEPT !.pc = "ov_group_documents", !.ops = @ \o <<"count">>,
                           !.chunks_count = Read(r).chunks_count])
    /\ UNCHANGED <<dataSources, documents, chunks, queue, dispatchLog, jobLookups,
                   returned, now, isolation, pager>>

\* vector_index_status = {s: c for s, c in session.exec(statement).all()}
OverviewGroupDocuments(w) ==
    /\ workers[w].pc = "ov_group_documents"
    /\ LET r == workers[w]
       IN Set(w, [r EXCEPT !.pc = "ov_kg_index", !.ops = @ \o <<"group">>,
                           !.vector_index_status = Read(r).vector_index_status])
    /\ UNCHANGED <<dataSources, documents, chunks, queue, dispatchLog, jobLookups,
                   returned, now, isolation, pager>>

\* The response dict assembled by the return statement.
OverviewBody(r) ==
    [documents |-> [total |-> r.documents_count], chunks |-> [total |-> r.chunks_count],
     kg_index |-> r.kg_index_status, vector_index |-> r.vector_index_status]

\* if data_source.build_kg_index: the grouped chunk query; else {}. Then return.
OverviewKgIndex(w) ==
    /\ workers[w].pc = "ov_kg_index"
    /\ LET r == workers[w]
           q == [r EXCEPT !.ops = IF r.data_source.build_kg_index THEN @ \o <<"group">> ELSE @,
                          !.kg_index_status = Read(r).kg_index_status]
       IN Set(w, Respond([q EXCEPT !.snap = NoSnap], 200, OverviewBody(q)))
    /\ UNCHANGED <<dataSources, documents, chunks, queue, dispatchLog, jobLookups,
                   returned, now, isolation, pager>>

---------------------------------------------------------------------------
\* The import and indexing pipeline: the only writer of Document and Chunk.

\* A write lands on an overview request past its first read: `dirty` when it
\* lands before the response, `stale` also when it lands after it.
Disturbed ==
    [w \in Workers |->
        IF workers[w].op = "overview" /\ workers[w].data_source # NoDataSource
        THEN [workers[w] EXCEPT !.stale = TRUE, !.dirty = @ \/ workers[w].pc # "done"]
        ELSE workers[w]]

ImportDocument ==
    /\ Cardinality(DOMAIN documents) < MaxDocuments
    /\ \E id \in DOMAIN dataSources :
          documents' = Put(documents, Cardinality(DOMAIN documents) + 1,
                           [data_source_id |-> id, index_status |-> "pending"])
    /\ workers' = Disturbed
    /\ UNCHANGED <<dataSources, chunks, queue, dispatchLog, jobLookups, returned, now,
                   isolation, pager>>

IndexDocument ==
    /\ \E d \in DOMAIN documents, s \in IndexStatus \ {"pending"} :
          /\ documents[d].index_status = "pending"
          /\ documents' = [documents EXCEPT ![d].index_status = s]
    /\ workers' = Disturbed
    /\ UNCHANGED <<dataSources, chunks, queue, dispatchLog, jobLookups, returned, now,
                   isolation, pager>>

CreateChunk ==
    /\ Cardinality(DOMAIN chunks) < MaxChunks
    /\ \E d \in DOMAIN documents :
          chunks' = Put(chunks, Cardinality(DOMAIN chunks) + 1,
                        [document_id |-> d, index_status |-> "pending"])
    /\ workers' = Disturbed
    /\ UNCHANGED <<dataSources, documents, queue, dispatchLog, jobLookups, returned, now,
                   isolation, pager>>

IndexChunk ==
    /\ \E c \in DOMAIN chunks, s \in IndexStatus \ {"pending"} :
          /\ chunks[c].index_status = "pending"
          /\ chunks' = [chunks EXCEPT ![c].index_status = s]
    /\ workers' = Disturbed
    /\ UNCHANGED <<dataSources, documents, queue, dispatchLog, jobLookups, returned, now,
                   isolation, pager>>

---------------------------------------------------------------------------
\* A client that reads the listing page by page, one request after another.

PagerOff == [phase |-> "off", size |-> 0, next |-> 0, seen |-> <<>>, base |-> {},
             waiting |-> "none"]

Superuser == CHOOSE u \in Users : u.is_superuser

PagerStart ==
    /\ pager.phase \in {"off", "finished"}
    /\ \E size \in 1..MaxPageSize :
          pager' = [phase |-> "walking", size |-> size, next |-> 1, seen |-> <<>>,
                    base |-> DOMAIN dataSources, waiting |-> "none"]
    /\ UNCHANGED <<dataSources, documents, chunks, queue, dispatchLog, jobLookups,
                   returned, now, isolation, workers>>

PagerRequest(w) ==
    /\ pager.phase = "walking"
    /\ pager.waiting = "none"
    /\ Free(w)
    /\ Arrive(w, ListRequest(Superuser, [page |-> pager.next, size |-> pager.size]), "list")
    /\ pager' = [pager EXCEPT !.waiting = w]
    /\ UNCHANGED <<dataSources, documents, chunks, queue, dispatchLog, jobLookups,
                   returned, now, isolation>>

\* The client takes the page and asks for the next one while the response
\* says there is one.
PagerCollect(w) ==
    /\ pager.waiting = w
    /\ workers[w].pc = "done"
    /\ LET page == workers[w].resp.body
       IN pager' = [pager EXCEPT
                       !.waiting = "none",
                       !.seen = @ \o [i \in DOMAIN page.items |-> page.items[i].id],
                       !.next = @ + 1,
                       !.phase = IF page.page >= page.pages THEN "finished" ELSE "walking"]
    /\ UNCHANGED <<dataSources, documents, chunks, queue, dispatchLog, jobLookups,
                   returned, now, isolation, workers>>

---------------------------------------------------------------------------
\* Specifications.

\* Empty storage and no request. The isolation level matters only to a
\* request that reads the pipeline's tables more than once (InitOverview).
Init ==
    /\ dataSources = EmptyMap
    /\ documents = EmptyMap
    /\ chunks = EmptyMap
    /\ queue = <<>>
    /\ dispatchLog = <<>>
    /\ jobLookups = EmptyMap
    /\ returned = EmptyMap
    /\ now = 0
    /\ isolation = "READ_COMMITTED"
    /\ workers = [w \in Workers |-> Idle]
    /\ pager = PagerOff

\* Reads change nothing another request sees, so one worker serving them
\* shows every interleaving of a read with the writers.
Readers == {"w1"}

\* The four endpoints served concurrently, and the task worker.
Next ==
    \/ \E w \in Workers : RequestCreate(w) \/ CreateCommit(w) \/ CreateDispatch(w)
    \/ \E w \in Readers :
          \/ RequestList(w) \/ list_datasources(w)
          \/ RequestGet(w) \/ get_datasource(w)
          \/ RequestOverview(w) \/ OverviewGet(w) \/ OverviewCountDocuments(w)
          \/ OverviewCountChunks(w) \/ OverviewGroupDocuments(w) \/ OverviewKgIndex(w)
    \/ RunJob

Spec == Init /\ [][Next]_vars

\* Two data sources exist, one of them with a knowledge-graph index, and
\* their import jobs have started.
StoredRow(id, request) ==
    [NewDataSource(request, Superuser) EXCEPT !.id = id, !.created_at = 0]

InitOverview ==
    /\ \E r1, r2 \in Requests :
          /\ ~r1.build_kg_index /\ r2.build_kg_index
          /\ dataSources = (1 :> StoredRow(1, r1)) @@ (2 :> StoredRow(2, r2))
    /\ returned = dataSources
    /\ documents = EmptyMap
    /\ chunks = EmptyMap
    /\ queue = <<>>
    /\ dispatchLog = <<1, 2>>
    /\ jobLookups = (1 :> TRUE) @@ (2 :> TRUE)
    /\ now = 0
    /\ isolation \in Isolations
    /\ workers = [w \in Workers |-> Idle]
    /\ pager = PagerOff

OverviewWorker == "w1"

\* The overview endpoint against the running pipeline.
NextOverview ==
    \/ RequestOverview(OverviewWorker) \/ OverviewGet(OverviewWorker)
    \/ OverviewCountDocuments(OverviewWorker) \/ OverviewCountChunks(OverviewWorker)
    \/ OverviewGroupDocuments(OverviewWorker) \/ OverviewKgIndex(OverviewWorker)
    \/ ImportDocument \/ IndexDocument \/ CreateChunk \/ IndexChunk

SpecOverview == InitOverview /\ [][NextOverview]_vars

\* A client paging through the listing while data sources are created.
NextList ==
    \/ \E w \in Workers \ Readers : RequestCreate(w) \/ CreateCommit(w) \/ CreateDispatch(w)
    \/ \E w \in Readers : PagerRequest(w) \/ list_datasources(w) \/ PagerCollect(w)
    \/ PagerStart
    \/ Tick

SpecList == Init /\ [][NextList]_vars

---------------------------------------------------------------------------
\* Properties.

Done(w, op) == workers[w].pc = "done" /\ workers[w].op = op
Ok(w, op) == Done(w, op) /\ workers[w].resp.status = 200

NoDuplicates(q) == \A i, j \in DOMAIN q : i # j => q[i] # q[j]
Occurrences(q, x) == Cardinality({ i \in DOMAIN q : q[i] = x })

\* No create request is between its arrival and its response.
NoCreateInFlight == \A w \in Workers : workers[w].op = "create" => workers[w].pc = "done"

\* C1: every id handed to the task queue is, from the moment of the dispatch
\* on, the id of a committed DataSource row, so every job that has run found
\* its row.
C1_CommittedBeforeDispatch ==
    /\ \A i \in DOMAIN dispatchLog : dispatchLog[i] \in DOMAIN dataSources
    /\ \A i \in DOMAIN queue : queue[i] \in DOMAIN dataSources
    /\ \A id \in DOMAIN jobLookups : jobLookups[id]

\* A job dispatched for a data source ran and looked it up while another
\* message is still waiting in the queue.
C1_Witness ==
    /\ \E id \in DOMAIN jobLookups : jobLookups[id] /\ id \in DOMAIN dataSources
    /\ queue # <<>>

C3_DispatchFailureLeavesRow ==
    \A w \in Workers :
        (Done(w, "create") /\ workers[w].resp.status = 500
                           /\ workers[w].data_source.id # NoneId) =>
            LET ds == workers[w].data_source
            IN /\ workers[w].resp.body = ServerError
               /\ workers[w].ops = <<"add", "commit", "refresh", "delay">>
               /\ ds.id \in DOMAIN dataSources
               /\ dataSources[ds.id] = ds
               /\ Occurrences(dispatchLog, ds.id) = 0
               /\ ds.id \notin DOMAIN jobLookups
               /\ ds.id \notin DOMAIN returned

\* A dispatch has failed after its commit.
C3_Witness ==
    \E w \in Workers : /\ Done(w, "create") /\ workers[w].resp.status = 500
                       /\ workers[w].data_source.id # NoneId

\* C4: the lookup of get_datasource and of get_datasource_overview ends the
\* request with 404 "not found" exactly when no row has the id; it then has
\* run the lookup only, and the step changes no table and dispatches nothing.
\* No other step of the two handlers answers 404.
C4_NotFound ==
    [][\A w \in Workers :
          LET r == workers[w]
              q == workers'[w]
          IN /\ (r.pc \in {"get", "ov_get"} /\ q.pc # r.pc) =>
                   IF r.data_source_id \notin DOMAIN dataSources
                   THEN /\ q.pc = "done"
                        /\ q.resp = [status |-> 404, body |-> NotFound]
                        /\ q.ops = <<"get">>
                        /\ UNCHANGED <<dataSources, documents, chunks, queue, dispatchLog>>
                   ELSE q.resp.status # 404
             /\ (r.pc # "done" /\ q.pc = "done" /\ q.op \in {"get", "overview"}
                                /\ q.resp.status = 404) =>
                   r.pc \in {"get", "ov_get"} /\ r.data_source_id \notin DOMAIN dataSources
      ]_vars

\* An overview request was answered 404 while data sources exist.
C4_Witness ==
    \E w \in Workers : /\ Done(w, "overview") /\ workers[w].resp.status = 404
                       /\ workers[w].ops = <<"get">>
                       /\ dataSources # EmptyMap

\* Chunks of status s whose parent Document belongs to data source id.
ChunksWithStatus(id, s) ==
    { c \in DOMAIN chunks : /\ chunks[c].index_status = s
                            /\ documents[chunks[c].document_id].data_source_id = id }

\* Documents of status s that belong to data source id.
DocumentsWithStatus(id, s) ==
    { d \in DOMAIN documents : documents[d].index_status = s
                               /\ documents[d].data_source_id = id }

\* C5: an overview of a data source with build_kg_index = false has an empty
\* kg_index whatever chunks exist; with build_kg_index = true, on storage
\* unchanged since the request's first read, kg_index holds for each status
\* the number of the data source's chunks with that status.
C5_KgIndex ==
    \A w \in Workers : Ok(w, "overview") =>
        LET r == workers[w]
            kg == r.resp.body.kg_index
        IN IF ~dataSources[r.data_source_id].build_kg_index
           THEN kg = EmptyMap
           ELSE ~r.stale =>
                  /\ DOMAIN kg \subseteq IndexStatus
                  /\ \A s \in IndexStatus :
                        LET n == Cardinality(ChunksWithStatus(r.data_source_id, s))
                        IN /\ n > 0 => s \in DOMAIN kg
                           /\ s \in DOMAIN kg => kg[s] = n

\* An overview of a data source without knowledge-graph index was answered
\* while chunks exist under its documents.
C5_Witness ==
    \E w \in Workers : /\ Ok(w, "overview")
                       /\ ~dataSources[workers[w].data_source_id].build_kg_index
                       /\ ~workers[w].stale
                       /\ \E s \in IndexStatus :
                             ChunksWithStatus(workers[w].data_source_id, s) # {}

\* C6: on storage unchanged since the request's first read, an overview holds
\* the number of the data source's documents, the number of chunks under
\* them, and in vector_index exactly the statuses held by at least one of its
\* documents, each with its count; without documents it is all zero and empty.
C6_Overview ==
    \A w \in Workers : (Ok(w, "overview") /\ ~workers[w].stale) =>
        LET id == workers[w].data_source_id
            body == workers[w].resp.body
            docs == { d \in DOMAIN documents : documents[d].data_source_id = id }
        IN /\ body.documents.total = Cardinality(docs)
           /\ body.chunks.total =
                 Cardinality({ c \in DOMAIN chunks : chunks[c].document_id \in docs })
           /\ DOMAIN body.vector_index =
                 { s \in IndexStatus : DocumentsWithStatus(id, s) # {} }
           /\ \A s \in DOMAIN body.vector_index :
                 body.vector_index[s] = Cardinality(DocumentsWithStatus(id, s))
           /\ docs = {} =>
                 body = [documents |-> [total |-> 0], chunks |-> [total |-> 0],
                         kg_index |-> EmptyMap, vector_index |-> EmptyMap]

\* An overview was answered for a data source whose one document is indexed,
\* while another data source holds a document too.
C6_Witness ==
    \E w \in Workers : /\ Ok(w, "overview") /\ ~workers[w].stale
                       /\ workers[w].resp.body.documents.total = 1
                       /\ DOMAIN workers[w].resp.body.vector_index = {"completed"}
                       /\ DOMAIN documents # DocumentsOf(documents, workers[w].data_source_id)

\* The created_at of the rows with the ids of q, in q's order, never rises.
NonIncreasing(q) ==
    \A i, j \in DOMAIN q : i < j => dataSources[q[i]].created_at >= dataSources[q[j]].created_at

DistinctCreatedAt ==
    \A a, b \in DOMAIN dataSources :
        a # b => dataSources[a].created_at # dataSources[b].created_at

PageIds(w) == [i \in DOMAIN workers[w].resp.body.items |-> workers[w].resp.body.items[i].id]

\* C7, as stated: whenever a client has read the pages one after another to
\* the last one, the pages are in non-increasing created_at order and hold
\* every data source that existed throughout, none of them twice.
C7_Original ==
    pager.phase = "finished" =>
        /\ NonIncreasing(pager.seen)
        /\ NoDuplicates(pager.seen)
        /\ pager.base \subseteq Range(pager.seen)
        /\ Range(pager.seen) \subseteq DOMAIN dataSources

\* C7, amended: every page is in non-increasing created_at order; and when
\* no create committed since the client began and no two data sources share a
\* created_at, the pages read one after another are in that order as a whole
\* and hold every data source exactly once.
C7_Listing ==
    /\ \A w \in Workers : Ok(w, "list") =>
          /\ NonIncreasing(PageIds(w))
          /\ NoDuplicates(PageIds(w))
          /\ Len(PageIds(w)) <= workers[w].params.size
    /\ (pager.phase = "finished" /\ pager.base = DOMAIN dataSources /\ DistinctCreatedAt) =>
          /\ NonIncreasing(pager.seen)
          /\ NoDuplicates(pager.seen)
          /\ Range(pager.seen) = DOMAIN dataSources

\* A client has read several pages of an unchanged listing of data sources
\* with distinct created_at.
C7_Witness ==
    /\ pager.phase = "finished" /\ pager.base = DOMAIN dataSources /\ DistinctCreatedAt
    /\ pager.next > 2
    /\ Len(pager.seen) >= 2

\* C8: a request of a caller who is not a superuser is answered with a
\* rejection without one storage operation or dispatch, and therefore no
\* handler body ever runs for such a caller and no row belongs to one.
C8_SuperuserOnly ==
    /\ \A w \in Workers :
          (workers[w].op # "none" /\ ~workers[w].user.is_superuser) =>
             /\ workers[w].pc = "done"
             /\ workers[w].resp = [status |-> 403, body |-> Forbidden]
             /\ workers[w].ops = <<>>
             /\ workers[w].data_source.id = NoneId
    /\ \A id \in DOMAIN dataSources :
          \E u \in Users : u.is_superuser /\ u.id = dataSources[id].user_id

\* A create and an overview of an ordinary user have been rejected.
C8_Witness ==
    \E w1, w2 \in Workers :
        /\ Done(w1, "create") /\ ~workers[w1].user.is_superuser
        /\ Done(w2, "overview") /\ ~workers[w2].user.is_superuser

\* C9: a successful create responds with the stored row: id and created_at
\* set, the request's fields, the caller's id; ids of distinct creations
\* differ; and a successful get of an id responds with exactly what the
\* create of that id responded with.
C9_RoundTrip ==
    /\ \A w \in Workers : Ok(w, "create") =>
          LET e == workers[w].resp.body
              req == workers[w].request
          IN /\ e.id # NoneId /\ e.created_at # NoneTime
             /\ e.name = req.name /\ e.description = req.description
             /\ e.data_source_type = req.data_source_type /\ e.config = req.config
             /\ e.build_kg_index = req.build_kg_index
             /\ e.user_id = workers[w].user.id
             /\ e.id \in DOMAIN returned /\ returned[e.id] = e
    /\ \A w1, w2 \in Workers :
          (w1 # w2 /\ Ok(w1, "create") /\ Ok(w2, "create")) =>
             workers[w1].resp.body.id # workers[w2].resp.body.id
    /\ \A id \in DOMAIN returned :
          /\ returned[id].id = id
          /\ id \in DOMAIN dataSources /\ dataSources[id] = returned[id]
    /\ \A w \in Workers : Ok(w, "get") =>
          /\ workers[w].resp.body.id = workers[w].data_source_id
          /\ workers[w].data_source_id \in DOMAIN returned =>
                workers[w].resp.body = returned[workers[w].data_source_id]

\* A get has answered with a data source whose create asked for a
\* knowledge-graph index, after a later create.
C9_Witness ==
    \E w \in Workers :
        /\ Ok(w, "get")
        /\ workers[w].data_source_id \in DOMAIN returned
        /\ workers[w].resp.body.build_kg_index
        /\ \E id \in DOMAIN returned : id > workers[w].data_source_id

\* The sum of the counts of a status -> count mapping.
Total(m) ==
    LET count(s) == IF s \in DOMAIN m THEN m[s] ELSE 0
    IN count("pending") + count("completed")

Consistent(body, build_kg_index) ==
    /\ Total(body.vector_index) = body.documents.total
    /\ build_kg_index => Total(body.kg_index) = body.chunks.total

\* C10, as stated: the counts of every overview response add up, whatever the
\* pipeline wrote between the handler's statements.
C10_Original ==
    \A w \in Workers : Ok(w, "overview") =>
        Consistent(workers[w].resp.body, workers[w].data_source.build_kg_index)

\* C10, amended: the counts of an overview response add up when the
\* session's transaction reads from one snapshot (REPEATABLE_READ) or the
\* pipeline wrote nothing between the handler's first read and its response.
C10_ConsistentOverview ==
    \A w \in Workers :
        (Ok(w, "overview") /\ (isolation = "REPEATABLE_READ" \/ ~workers[w].dirty)) =>
            Consistent(workers[w].resp.body, workers[w].data_source.build_kg_index)

\* Under REPEATABLE_READ, an overview of a data source with knowledge-graph
\* index answered with the counts of its snapshot, while the pipeline wrote
\* between its statements.
C10_Witness ==
    \E w \in Workers :
        /\ Ok(w, "overview") /\ isolation = "REPEATABLE_READ" /\ workers[w].dirty
        /\ workers[w].data_source.build_kg_index
        /\ workers[w].resp.body.documents.total > 0
        /\ workers[w].resp.body.documents.total
              < Cardinality(DocumentsOf(documents, workers[w].data_source_id))

====
